---- MODULE Spec2Model ----
(***************************************************************************)
(* Model of the indexedlinkedhashmap crate (src/src/lib.rs):               *)
(* IndexedLinkedHashMap<Vec<K>, K, V>, an insertion-ordered map made of an *)
(* Order Index (_keys, a Vec<K>) and a Value Table (_values, a HashMap     *)
(* from K to IndexedLinkedHashMapValue { index: Option<usize>, value }).   *)
(*                                                                         *)
(* Option<T> is modelled as a sequence of length at most one:              *)
(* None is <<>> and Some(x) is <<x>>.  Vec indices are 0-based as in the   *)
(* source; the TLA+ sequence behind a Vec holds element i at i + 1.        *)
(***************************************************************************)
EXTENDS Bags, FiniteSets, Integers, Sequences, TLC

\* ins  : the container, [_keys |-> Order Index, _values |-> Value Table]
\* last : the most recent call (history): name, arguments, result, and the
\*        container it was applied to
\* sets : Some(ks) while every call since new() was a set() on a key not
\*        set before (ks: those keys in call order), None afterwards (history)
\* built: the value sets had before the most recent call (history)
VARIABLES ins, last, sets, built

vars == <<ins, last, sets, built>>

(* ------------------------------ bounds --------------------------------- *)

\* Longest Order Index the model lets set() grow (Vec::push is unbounded).
MaxLen == 3

\* Values are drawn from 1..NumVals.
NumVals == 2

\* The key universe (K) and the value universe (V).
Keys == {"a", "b", "c"}
Vals == 1..NumVals

\* The keys the calls of Spec draw from; the specifications with fewer
\* operations draw from all of Keys.
TwoKeys == {"a", "b"}

(* ------------------------------ Option --------------------------------- *)

None == <<>>
Some(x) == <<x>>
IsSome(o) == o # None
Unwrap(o) == o[1]

\* Arguments of type Option<usize> handed to at / key_at / set_at.
Indices == {None} \cup {Some(i) : i \in 0..MaxLen}

(* ----------------------- std::collections::HashMap --------------------- *)

HashMap_new == [j \in {} |-> None]
HashMap_contains_key(m, k) == k \in DOMAIN m
HashMap_get(m, k) == IF k \in DOMAIN m THEN Some(m[k]) ELSE None
HashMap_insert(m, k, x) == [j \in (DOMAIN m) \cup {k} |-> IF j = k THEN x ELSE m[j]]
HashMap_remove(m, k) == [j \in (DOMAIN m) \ {k} |-> m[j]]
HashMap_clear(m) == HashMap_new

(* --------------------------- std::vec::Vec ----------------------------- *)

\* Vec::remove(i) for i < len: deletes slot i and shifts the tail down.
Vec_std_remove(s, i) == [j \in 1..(Len(s) - 1) |-> IF j <= i THEN s[j] ELSE s[j + 1]]

\* The fatal conditions of the std operations the crate uses: indexing a
\* Vec (self[i]) or Vec::remove(i) at i >= len, unwrap() of None, and a usize
\* subtraction below zero.
Vec_index_panics(s, i) == i >= Len(s)
Vec_std_remove_panics(s, i) == i >= Len(s)
Option_unwrap_panics(o) == o = None
usize_sub_panics(x, y) == x < y

(* ----------------------- impl Keys<K> for Vec<K> ----------------------- *)

Vec_len(s) == Len(s)

Vec_get(s, i) ==
    IF IsSome(i)
    THEN IF Unwrap(i) >= Len(s) THEN None ELSE Some(s[Unwrap(i) + 1])
    ELSE None

Vec_set(s, i, k) ==
    IF IsSome(i)
    THEN IF Unwrap(i) >= Len(s) THEN s ELSE [s EXCEPT ![Unwrap(i) + 1] = k]
    ELSE s

\* A push that puts the key in front instead of at the end.
Vec_push_front(s, k) == <<k>> \o s

Vec_push(s, k) == Append(s, k)

\* A remove that fills the slot with the last key (Vec::swap_remove).
Vec_remove_swap(s, i) ==
    IF IsSome(i)
    THEN IF Unwrap(i) >= Len(s)
         THEN s
         ELSE [j \in 1..(Len(s) - 1) |-> IF j = Unwrap(i) + 1 THEN s[Len(s)] ELSE s[j]]
    ELSE s

Vec_remove(s, i) ==
    IF IsSome(i)
    THEN IF Unwrap(i) >= Len(s) THEN s ELSE Vec_std_remove(s, Unwrap(i))
    ELSE s

Vec_clear(s) == <<>>

\* TRUE iff the call reaches a fatal std operation: the path of the call
\* through its matches, and the fatal condition of what it reaches there.
Vec_get_panics(s, i) ==
    IsSome(i) /\ ~(Unwrap(i) >= Len(s)) /\ Vec_index_panics(s, Unwrap(i))

Vec_set_panics(s, i, k) ==
    IsSome(i) /\ ~(Unwrap(i) >= Len(s)) /\ Vec_index_panics(s, Unwrap(i))

\* remove() of the Order Index without the match on i >= self.len().
Vec_remove_panics_unchecked(s, i) ==
    IsSome(i) /\ Vec_std_remove_panics(s, Unwrap(i))

Vec_remove_panics(s, i) ==
    IsSome(i) /\ ~(Unwrap(i) >= Len(s)) /\ Vec_std_remove_panics(s, Unwrap(i))

(* -------------------- impl Keys<K> for BinaryHeap<K> ------------------- *)

\* A BinaryHeap is modelled by the bag of its keys; the order in which it
\* iterates is not specified.
BinaryHeap_new == EmptyBag
BinaryHeap_from(b) == b
BinaryHeap_append(h, other) == h (+) other

Heap_len(h) == BagCardinality(h)

\* The values get() may return: any key of the heap for an index in range.
Heap_get(h, i) ==
    IF IsSome(i)
    THEN IF Unwrap(i) >= Heap_len(h) THEN {None} ELSE {Some(k) : k \in BagToSet(h)}
    ELSE {None}

\* set(): p is a copy of the heap plus k, and all of p is appended to self.
Heap_set(h, i, k) ==
    LET p == h (+) SetToBag({k})
    IN  BinaryHeap_append(h, BinaryHeap_from(p))

Heap_push(h, k) == h (+) SetToBag({k})

\* remove(): p is a copy of the heap; the filtered copy n is built and
\* dropped, and all of p is appended to self.
Heap_remove(h, i) ==
    IF IsSome(i)
    THEN IF Unwrap(i) >= Heap_len(h)
         THEN h
         ELSE LET p == h
              IN  BinaryHeap_append(h, BinaryHeap_from(p))
    ELSE h

Heap_clear(h) == EmptyBag

(* ------------------------ IndexedLinkedHashMap ------------------------- *)

IndexedLinkedHashMapValue(i, v) == [index |-> i, value |-> v]

new == [_keys |-> <<>>, _values |-> HashMap_new]

get(self, k) ==
    LET r == HashMap_get(self._values, k)
    IN  IF IsSome(r) THEN Some(Unwrap(r).value) ELSE None

len(self) == Vec_len(self._keys)

contains_key(self, k) == HashMap_contains_key(self._values, k)

keys(self) == self._keys

\* values() collects the HashMap's iterator, whose order is unspecified:
\* the set of the vectors the call may return.
values(self) ==
    LET D == DOMAIN self._values
        n == Cardinality(D)
    IN  { [j \in 1..n |-> self._values[f[j]]] :
              f \in { g \in [1..n -> D] : \A x, y \in 1..n : x # y => g[x] # g[y] } }

at(self, i) ==
    IF IsSome(i)
    THEN IF Unwrap(i) >= Vec_len(self._keys)
         THEN None
         ELSE LET k == Vec_get(self._keys, i)
              IN  IF IsSome(k)
                  THEN LET v == HashMap_get(self._values, Unwrap(k))
                       IN  IF IsSome(v) THEN Some(Unwrap(v).value) ELSE None
                  ELSE None
    ELSE LET k == Vec_get(self._keys, i)
         IN  IF IsSome(k)
             THEN LET v == HashMap_get(self._values, Unwrap(k))
                  IN  IF IsSome(v) THEN Some(Unwrap(v).value) ELSE None
             ELSE None

key_at(self, i) ==
    IF IsSome(i)
    THEN IF Unwrap(i) >= Vec_len(self._keys) THEN None ELSE Vec_get(self._keys, i)
    ELSE Vec_get(self._keys, i)

\* set() whose upsert branch re-derives the index from the length.
set_reindex(self, k, v) ==
    IF HashMap_contains_key(self._values, k)
    THEN [self EXCEPT !._values = HashMap_insert(self._values, k,
              IndexedLinkedHashMapValue(Some(Vec_len(self._keys) - 1), v))]
    ELSE LET ks == Vec_push(self._keys, k)
         IN  [_keys |-> ks,
              _values |-> HashMap_insert(self._values, k,
                  IndexedLinkedHashMapValue(Some(Vec_len(ks) - 1), v))]

\* set() whose upsert branch keeps the old value.
set_keep(self, k, v) ==
    IF HashMap_contains_key(self._values, k)
    THEN self
    ELSE LET ks == Vec_push(self._keys, k)
         IN  [_keys |-> ks,
              _values |-> HashMap_insert(self._values, k,
                  IndexedLinkedHashMapValue(Some(Vec_len(ks) - 1), v))]

\* set() that pushes the key whether it is contained or not.
set_always_push(self, k, v) ==
    LET ks == Vec_push(self._keys, k)
    IN  [_keys |-> ks,
         _values |-> HashMap_insert(self._values, k,
             IndexedLinkedHashMapValue(Some(Vec_len(ks) - 1), v))]

\* set() that records the length after the push as the new key's index.
set_index_after(self, k, v) ==
    IF HashMap_contains_key(self._values, k)
    THEN LET value == Unwrap(HashMap_get(self._values, k))
         IN  [self EXCEPT !._values = HashMap_insert(self._values, k,
                  IndexedLinkedHashMapValue(value.index, v))]
    ELSE LET ks == Vec_push(self._keys, k)
         IN  [_keys |-> ks,
              _values |-> HashMap_insert(self._values, k,
                  IndexedLinkedHashMapValue(Some(Vec_len(ks)), v))]

set(self, k, v) ==
    IF HashMap_contains_key(self._values, k)
    THEN LET value == Unwrap(HashMap_get(self._values, k))
         IN  [self EXCEPT !._values = HashMap_insert(self._values, k,
                  IndexedLinkedHashMapValue(value.index, v))]
    ELSE LET ks == Vec_push(self._keys, k)
         IN  [_keys |-> ks,
              _values |-> HashMap_insert(self._values, k,
                  IndexedLinkedHashMapValue(Some(Vec_len(ks) - 1), v))]

\* set_at() that evicts the key it overwrites from the Value Table.
set_at_evict(self, i, k, v) ==
    IF IsSome(i)
    THEN IF Unwrap(i) >= Vec_len(self._keys)
         THEN self
         ELSE [_keys |-> Vec_set(self._keys, Some(Unwrap(i)), k),
               _values |-> HashMap_insert(
                   HashMap_remove(self._values, self._keys[Unwrap(i) + 1]), k,
                   IndexedLinkedHashMapValue(Some(Unwrap(i)), v))]
    ELSE [_keys |-> Vec_set(self._keys, i, k),
          _values |-> HashMap_insert(self._values, k, IndexedLinkedHashMapValue(i, v))]

\* set_at() that ignores a call without an index.
set_at_none_ignored(self, i, k, v) ==
    IF IsSome(i)
    THEN IF Unwrap(i) >= Vec_len(self._keys)
         THEN self
         ELSE [_keys |-> Vec_set(self._keys, Some(Unwrap(i)), k),
               _values |-> HashMap_insert(self._values, k,
                   IndexedLinkedHashMapValue(Some(Unwrap(i)), v))]
    ELSE self

\* set_at() that writes the Value Table but not the Order Index.
set_at_values_only(self, i, k, v) ==
    IF IsSome(i)
    THEN IF Unwrap(i) >= Vec_len(self._keys)
         THEN self
         ELSE [self EXCEPT !._values = HashMap_insert(self._values, k,
                   IndexedLinkedHashMapValue(Some(Unwrap(i)), v))]
    ELSE [_keys |-> Vec_set(self._keys, i, k),
          _values |-> HashMap_insert(self._values, k, IndexedLinkedHashMapValue(i, v))]

\* set_at() without the bounds check on Some(i).
set_at_unchecked(self, i, k, v) ==
    [_keys |-> Vec_set(self._keys, i, k),
     _values |-> HashMap_insert(self._values, k, IndexedLinkedHashMapValue(i, v))]

set_at(self, i, k, v) ==
    IF IsSome(i)
    THEN IF Unwrap(i) >= Vec_len(self._keys)
         THEN self
         ELSE [_keys |-> Vec_set(self._keys, Some(Unwrap(i)), k),
               _values |-> HashMap_insert(self._values, k,
                   IndexedLinkedHashMapValue(Some(Unwrap(i)), v))]
    ELSE [_keys |-> Vec_set(self._keys, i, k),
          _values |-> HashMap_insert(self._values, k, IndexedLinkedHashMapValue(i, v))]

\* remove() that deletes the first slot when the key is absent.
remove_blind(self, k) ==
    IF HashMap_contains_key(self._values, k)
    THEN LET removed == self._values[k]
         IN  [self |-> [_keys |-> Vec_remove(self._keys, removed.index),
                        _values |-> HashMap_remove(self._values, k)],
              ret |-> Some(removed)]
    ELSE [self |-> [self EXCEPT !._keys = Vec_remove(self._keys, Some(0))],
          ret |-> None]

\* remove() returns the pair of the new container and the returned Option.
remove(self, k) ==
    IF HashMap_contains_key(self._values, k)
    THEN LET removed == self._values[k]
         IN  [self |-> [_keys |-> Vec_remove(self._keys, removed.index),
                        _values |-> HashMap_remove(self._values, k)],
              ret |-> Some(removed)]
    ELSE [self |-> self, ret |-> None]

\* clear() that forgets to empty the Value Table.
clear_keys_only(self) == [self EXCEPT !._keys = Vec_clear(self._keys)]

clear(self) ==
    [_keys |-> Vec_clear(self._keys), _values |-> HashMap_clear(self._values)]

\* TRUE iff the call reaches a fatal operation (an unwrap() of None, a usize
\* underflow, or a fatal call of the Order Index).
set_panics(self, k, v) ==
    IF HashMap_contains_key(self._values, k)
    THEN Option_unwrap_panics(HashMap_get(self._values, k))
    ELSE usize_sub_panics(Vec_len(Vec_push(self._keys, k)), 1)

at_panics(self, i) ==
    IF IsSome(i)
    THEN IF Unwrap(i) >= Vec_len(self._keys)
         THEN FALSE
         ELSE Vec_get_panics(self._keys, Some(Unwrap(i)))
    ELSE Vec_get_panics(self._keys, i)

key_at_panics(self, i) ==
    IF IsSome(i)
    THEN IF Unwrap(i) >= Vec_len(self._keys)
         THEN FALSE
         ELSE Vec_get_panics(self._keys, Some(Unwrap(i)))
    ELSE Vec_get_panics(self._keys, i)

set_at_panics(self, i, k, v) ==
    IF IsSome(i)
    THEN IF Unwrap(i) >= Vec_len(self._keys)
         THEN FALSE
         ELSE Vec_set_panics(self._keys, Some(Unwrap(i)), k)
    ELSE Vec_set_panics(self._keys, i, k)

remove_panics(self, k) ==
    IF HashMap_contains_key(self._values, k)
    THEN \/ Option_unwrap_panics(HashMap_get(self._values, k))
         \/ Vec_remove_panics(self._keys, self._values[k].index)
    ELSE FALSE

(* ------------------------------ the calls ------------------------------ *)

\* last records the most recent call: its name, its arguments, what it
\* returned and the container it was applied to (pre).
Call(op, k, v, i, ret) ==
    [op |-> op, k |-> k, v |-> v, i |-> i, ret |-> ret, pre |-> ins]

\* sets is Some(ks) while every call since new() was a set() on a key not set
\* before, ks being those keys in call order; None afterwards.
Init ==
    /\ ins = new
    /\ last = [op |-> "new", k |-> None, v |-> None, i |-> None, ret |-> None, pre |-> new]
    /\ sets = Some(<<>>)
    /\ built = Some(<<>>)

CallSet(k, v) ==
    /\ contains_key(ins, k) \/ len(ins) < MaxLen
    /\ ins' = set(ins, k, v)
    /\ last' = Call("set", Some(k), Some(v), None, None)
    /\ sets' = IF IsSome(sets) /\ \A j \in 1..Len(Unwrap(sets)) : Unwrap(sets)[j] # k
               THEN Some(Append(Unwrap(sets), k))
               ELSE None
    /\ built' = sets

CallSetAt(i, k, v) ==
    /\ ins' = set_at(ins, i, k, v)
    /\ last' = Call("set_at", Some(k), Some(v), i, None)
    /\ sets' = None
    /\ built' = sets

CallRemove(k) ==
    /\ ins' = remove(ins, k).self
    /\ last' = Call("remove", Some(k), None, None, remove(ins, k).ret)
    /\ sets' = None
    /\ built' = sets

CallClear ==
    /\ ins' = clear(ins)
    /\ last' = Call("clear", None, None, None, None)
    /\ sets' = None
    /\ built' = sets

Next ==
    \/ \E k \in TwoKeys, v \in Vals : CallSet(k, v)
    \/ \E i \in Indices, k \in TwoKeys, v \in Vals : CallSetAt(i, k, v)
    \/ \E k \in TwoKeys : CallRemove(k)
    \/ CallClear

Spec == Init /\ [][Next]_vars

\* The calls of a client that never uses set_at(): what set(), remove() and
\* clear() do to the container on their own.
NextSetRemove ==
    \/ \E k \in Keys, v \in Vals : CallSet(k, v)
    \/ \E k \in Keys : CallRemove(k)
    \/ CallClear

SpecSetRemove == Init /\ [][NextSetRemove]_vars

\* The calls of a client that only ever uses set() and clear().
NextSetClear ==
    \/ \E k \in Keys, v \in Vals : CallSet(k, v)
    \/ CallClear

SpecSetClear == Init /\ [][NextSetClear]_vars

\* The Order Index capability on its BinaryHeap realization: ins._keys is a
\* BinaryHeap<K> (I::default() of IndexedLinkedHashMap<BinaryHeap<K>, K, V>)
\* and the calls are those of the Keys trait.  The heap grows with set() and
\* remove(); the calls that grow it are made up to MaxLen keys.
InitHeap ==
    /\ ins = [_keys |-> BinaryHeap_new, _values |-> HashMap_new]
    /\ last = [op |-> "new", k |-> None, v |-> None, i |-> None, ret |-> None,
               pre |-> [_keys |-> BinaryHeap_new, _values |-> HashMap_new]]
    /\ sets = None
    /\ built = None

HeapPush(k) ==
    /\ Heap_len(ins._keys) < MaxLen
    /\ ins' = [ins EXCEPT !._keys = Heap_push(ins._keys, k)]
    /\ last' = Call("Keys::push", Some(k), None, None, None)
    /\ UNCHANGED <<sets, built>>

HeapSet(i, k) ==
    /\ Heap_len(ins._keys) <= MaxLen
    /\ ins' = [ins EXCEPT !._keys = Heap_set(ins._keys, i, k)]
    /\ last' = Call("Keys::set", Some(k), None, i, None)
    /\ UNCHANGED <<sets, built>>

HeapRemove(i) ==
    /\ Heap_len(ins._keys) <= MaxLen
    /\ ins' = [ins EXCEPT !._keys = Heap_remove(ins._keys, i)]
    /\ last' = Call("Keys::remove", None, None, i, None)
    /\ UNCHANGED <<sets, built>>

HeapClear ==
    /\ ins' = [ins EXCEPT !._keys = Heap_clear(ins._keys)]
    /\ last' = Call("Keys::clear", None, None, None, None)
    /\ UNCHANGED <<sets, built>>

NextHeap ==
    \/ \E k \in Keys : HeapPush(k)
    \/ \E i \in Indices, k \in Keys : HeapSet(i, k)
    \/ \E i \in Indices : HeapRemove(i)
    \/ HeapClear

SpecHeap == InitHeap /\ [][NextHeap]_vars

TypeOK ==
    /\ ins._keys \in Seq(Keys)
    /\ Len(ins._keys) <= MaxLen
    /\ DOMAIN ins._values \subseteq Keys
    /\ \A k \in DOMAIN ins._values :
          /\ ins._values[k].value \in Vals
          /\ ins._values[k].index \in Indices

(* ------------------------------ the claims ----------------------------- *)

\* Arguments of the most recent call.
LastKey == Unwrap(last.k)
LastVal == Unwrap(last.v)

\* TRUE iff no key occurs at two positions of the sequence s.
NoDuplicates(s) == \A x, y \in 1..Len(s) : x # y => s[x] # s[y]

\* C1: for every key k of the Value Table whose recorded position is p, the
\* Order Index holds k at index p: p < len() and key_at(p) == k.
C1_RecordedPositionIsSlot ==
    \A k \in DOMAIN ins._values :
        LET p == ins._values[k].index
        IN  IsSome(p) => /\ Unwrap(p) < len(ins)
                         /\ key_at(ins, p) = Some(k)

\* C2: keys() is a duplicate-free listing of exactly the keys of the Value
\* Table: no key twice, every listed key is contained, every contained key is
\* listed.
C2_OrderIndexListsValueTable ==
    /\ NoDuplicates(keys(ins))
    /\ \A x \in 1..Len(keys(ins)) : contains_key(ins, keys(ins)[x])
    /\ \A k \in Keys : contains_key(ins, k) => \E x \in 1..Len(keys(ins)) : keys(ins)[x] = k

\* C3: len() equals the number of elements of keys() and the number of
\* elements of values().
C3_LenIsKeysAndValuesLength ==
    /\ len(ins) = Len(keys(ins))
    /\ \A vs \in values(ins) : Len(vs) = len(ins)

\* C4: remove(k) of a contained key deletes k's slot from keys(), keeping the
\* other keys in their order (len() drops by one), and leaves get(j) of every
\* other key j as it was.
C4_RemoveDeletesSlot ==
    (last.op = "remove" /\ contains_key(last.pre, LastKey)) =>
        /\ \E x \in 1..Len(keys(last.pre)) :
              /\ keys(last.pre)[x] = LastKey
              /\ keys(ins) = Vec_std_remove(keys(last.pre), x - 1)
        /\ len(ins) = len(last.pre) - 1
        /\ \A j \in Keys \ {LastKey} : get(ins, j) = get(last.pre, j)

\* C5: for every integer index i, at(i) is empty exactly when i >= len(), and
\* when i < len() it is the (non-empty) value stored for the key key_at(i).
C5_AtFollowsKeyAt ==
    \A i \in 0..MaxLen :
        /\ (at(ins, Some(i)) = None) <=> (i >= len(ins))
        /\ i < len(ins) =>
              /\ IsSome(key_at(ins, Some(i)))
              /\ IsSome(at(ins, Some(i)))
              /\ at(ins, Some(i)) = get(ins, Unwrap(key_at(ins, Some(i))))

\* C6: while every call since new() was a set() on a key not set before,
\* keys() is the sequence of those keys in call order, and key_at(i) is the
\* (i+1)-th key set.
C6_KeysInCallOrder ==
    IsSome(sets) =>
        /\ keys(ins) = Unwrap(sets)
        /\ len(ins) = Len(Unwrap(sets))
        /\ \A i \in 0..(Len(Unwrap(sets)) - 1) :
              key_at(ins, Some(i)) = Some(Unwrap(sets)[i + 1])

\* Three distinct keys were set, one after the other, on a new container.
C6_Witness == IsSome(sets) /\ Len(Unwrap(sets)) >= 3

\* C7: set(k, v2) on a contained key replaces only k's value: get(k) == v2,
\* while len(), key_at(i) at every position, k's recorded position and the
\* value of every other key stay as they were.
C7_UpsertReplacesOnlyValue ==
    (last.op = "set" /\ contains_key(last.pre, LastKey)) =>
        /\ get(ins, LastKey) = Some(LastVal)
        /\ len(ins) = len(last.pre)
        /\ \A i \in Indices : key_at(ins, i) = key_at(last.pre, i)
        /\ ins._values[LastKey].index = last.pre._values[LastKey].index
        /\ \A j \in Keys \ {LastKey} :
              /\ contains_key(ins, j) = contains_key(last.pre, j)
              /\ get(ins, j) = get(last.pre, j)

\* set() gave a new value to a contained key that is not the last of two or
\* more positions.
C7_Witness ==
    /\ last.op = "set"
    /\ contains_key(last.pre, LastKey)
    /\ get(last.pre, LastKey) # Some(LastVal)
    /\ len(last.pre) >= 2
    /\ key_at(last.pre, Some(0)) = Some(LastKey)
    /\ last.pre._values[LastKey].index = Some(0)

\* C8: immediately after set(k, v), get(k) returns v, and at(p) returns v for
\* every position p with key_at(p) == k.
C8_SetThenGet ==
    last.op = "set" =>
        /\ get(ins, LastKey) = Some(LastVal)
        /\ \A p \in Indices : key_at(ins, p) = Some(LastKey) => at(ins, p) = Some(LastVal)

\* set() changed the value of a contained key that occupies a position.
C8_Witness ==
    /\ last.op = "set"
    /\ contains_key(last.pre, LastKey)
    /\ get(last.pre, LastKey) # Some(LastVal)
    /\ \E p \in Indices : key_at(ins, p) = Some(LastKey)

\* C9: clear() yields the container new() constructs: len() == 0, keys() and
\* values() are empty and no key is contained, so that every later call acts
\* on the state it would act on after new().
C9_ClearIsNew ==
    last.op = "clear" =>
        /\ ins = new
        /\ len(ins) = 0
        /\ keys(ins) = <<>>
        /\ values(ins) = {<<>>}
        /\ \A k \in Keys : ~contains_key(ins, k)

\* clear() was called on a container with keys in both substructures.
C9_Witness ==
    /\ last.op = "clear"
    /\ len(last.pre) > 0
    /\ \E k \in Keys : contains_key(last.pre, k)

\* C10: set_at(Some(i), k, v) with i >= len() changes nothing: len(), keys(),
\* the contained keys, and every stored value and position.
C10_SetAtOutOfRangeIsNoOp ==
    (last.op = "set_at" /\ IsSome(last.i) /\ Unwrap(last.i) >= len(last.pre)) =>
        /\ len(ins) = len(last.pre)
        /\ keys(ins) = keys(last.pre)
        /\ \A k \in Keys : contains_key(ins, k) = contains_key(last.pre, k)
        /\ ins._values = last.pre._values

\* set_at() was called past the end of a non-empty container, once with a key
\* it does not contain.
C10_Witness ==
    /\ last.op = "set_at"
    /\ IsSome(last.i)
    /\ Unwrap(last.i) >= len(last.pre)
    /\ len(last.pre) > 0
    /\ ~contains_key(last.pre, LastKey)

\* C11: lookups of what does not exist return None and change nothing: get(k)
\* and remove(k) of a key that is not contained, at(i) and key_at(i) for
\* i >= len(); remove() of such a key leaves the Order Index and the Value
\* Table as they were.
C11_AbsentLookupsAreEmpty ==
    /\ \A k \in Keys : ~contains_key(ins, k) => get(ins, k) = None
    /\ \A i \in 0..(MaxLen + 1) :
          i >= len(ins) => /\ at(ins, Some(i)) = None
                           /\ key_at(ins, Some(i)) = None
    /\ (last.op = "remove" /\ ~contains_key(last.pre, LastKey)) =>
          /\ last.ret = None
          /\ ins._keys = last.pre._keys
          /\ ins._values = last.pre._values

\* remove() was called with a key that is not contained, on a container that
\* holds other keys.
C11_Witness ==
    /\ last.op = "remove"
    /\ ~contains_key(last.pre, LastKey)
    /\ len(last.pre) > 0
    /\ \E k \in Keys : contains_key(last.pre, k)

\* C12: no call can fail fatally, in any reachable state and for any
\* argument: the unwraps of set() and remove() meet Some, the len() - 1 of
\* set() does not underflow, and the Order Index is never accessed at or past
\* its length.
C12_NoPanic ==
    \A k \in Keys :
        /\ ~remove_panics(ins, k)
        /\ \A v \in Vals :
              /\ ~set_panics(ins, k, v)
              /\ \A i \in Indices : ~set_at_panics(ins, i, k, v)
        /\ \A i \in Indices : ~at_panics(ins, i) /\ ~key_at_panics(ins, i)

\* remove() met a cached index at or past the length of the Order Index.
C12_Witness ==
    /\ last.op = "remove"
    /\ IsSome(last.ret)
    /\ IsSome(Unwrap(last.ret).index)
    /\ Unwrap(Unwrap(last.ret).index) >= len(last.pre)

\* C13: set_at(Some(i), k, v) with i < len() overwrites position i in place:
\* key_at(i) == k, at(i) == v, get(k) == v, k's recorded position is i, len()
\* is unchanged and key_at(j) is unchanged for every j != i.
C13_SetAtOverwritesInPlace ==
    (last.op = "set_at" /\ IsSome(last.i) /\ Unwrap(last.i) < len(last.pre)) =>
        /\ key_at(ins, last.i) = Some(LastKey)
        /\ at(ins, last.i) = Some(LastVal)
        /\ get(ins, LastKey) = Some(LastVal)
        /\ ins._values[LastKey].index = last.i
        /\ len(ins) = len(last.pre)
        /\ \A j \in Indices \ {last.i} : key_at(ins, j) = key_at(last.pre, j)

\* set_at() put a new key over another key, in a container of two or more
\* positions.
C13_Witness ==
    /\ last.op = "set_at"
    /\ IsSome(last.i)
    /\ Unwrap(last.i) < len(last.pre)
    /\ len(last.pre) >= 2
    /\ key_at(last.pre, last.i) # Some(LastKey)
    /\ ~contains_key(last.pre, LastKey)

\* The 0-based position of key k in the duplicate-free sequence ks.
PositionIn(ks, k) == CHOOSE j \in 0..(Len(ks) - 1) : ks[j + 1] = k

\* C14: on a container built from new() only by set() calls on distinct keys
\* k0..k(n-1), one remove(kj) gives len() == n - 1, key_at(i) == ki for i < j,
\* key_at(i) == k(i+1) for j <= i < n - 1, and get() of every remaining key
\* returns its stored value.
C14_RemoveAfterDistinctSets ==
    (/\ last.op = "remove"
     /\ IsSome(built)
     /\ \E x \in 1..Len(Unwrap(built)) : Unwrap(built)[x] = LastKey) =>
        LET ks == Unwrap(built)
            n  == Len(ks)
            j  == PositionIn(ks, LastKey)
        IN  /\ len(ins) = n - 1
            /\ \A i \in 0..(n - 2) :
                  key_at(ins, Some(i)) = Some(IF i < j THEN ks[i + 1] ELSE ks[i + 2])
            /\ \A x \in 1..n :
                  ks[x] # LastKey => /\ IsSome(get(ins, ks[x]))
                                     /\ get(ins, ks[x]) = get(last.pre, ks[x])

\* Three distinct keys were set on a new container and the first was removed.
C14_Witness ==
    /\ last.op = "remove"
    /\ IsSome(built)
    /\ Len(Unwrap(built)) = 3
    /\ Unwrap(built)[1] = LastKey
    /\ IsSome(last.ret)

\* C15: remove(k) of a contained key returns the value stored under k and the
\* index that k occupied in the Order Index right before the removal.
C15_RemoveReturnsValueAndSlot ==
    (last.op = "remove" /\ contains_key(last.pre, LastKey)) =>
        /\ IsSome(last.ret)
        /\ Some(Unwrap(last.ret).value) = get(last.pre, LastKey)
        /\ IsSome(Unwrap(last.ret).index)
        /\ key_at(last.pre, Unwrap(last.ret).index) = Some(LastKey)

\* C16: set(k, v) on a key that is not contained appends k: with n the len()
\* before, len() == n + 1, key_at(n) == k, k's recorded position is n, and
\* key_at(i) is unchanged for every i < n.
C16_SetAppendsNewKey ==
    (last.op = "set" /\ ~contains_key(last.pre, LastKey)) =>
        LET n == len(last.pre)
        IN  /\ len(ins) = n + 1
            /\ key_at(ins, Some(n)) = Some(LastKey)
            /\ ins._values[LastKey].index = Some(n)
            /\ get(ins, LastKey) = Some(LastVal)
            /\ \A i \in 0..(n - 1) : key_at(ins, Some(i)) = key_at(last.pre, Some(i))

\* set() appended a key behind two others.
C16_Witness ==
    /\ last.op = "set"
    /\ ~contains_key(last.pre, LastKey)
    /\ len(last.pre) >= 2

\* The key that position i of the container held before the most recent call.
OldKey == Unwrap(key_at(last.pre, last.i))

\* C17: when set_at(Some(i), k, v) with i < len() overwrites a position that
\* held another key old, whose entry the Value Table holds, old is not
\* evicted: contains_key(old) is still true and get(old) still returns old's
\* value, while position i no longer holds old.
C17_SetAtKeepsOverwrittenKey ==
    (/\ last.op = "set_at"
     /\ IsSome(last.i)
     /\ Unwrap(last.i) < len(last.pre)
     /\ OldKey # LastKey
     /\ contains_key(last.pre, OldKey)) =>
        /\ contains_key(ins, OldKey)
        /\ get(ins, OldKey) = get(last.pre, OldKey)
        /\ ins._values[OldKey] = last.pre._values[OldKey]
        /\ key_at(ins, last.i) # Some(OldKey)

\* set_at() overwrote the position recorded for another, contained key, which
\* then occupies no position.
C17_Witness ==
    /\ last.op = "set_at"
    /\ IsSome(last.i)
    /\ Unwrap(last.i) < len(last.pre)
    /\ OldKey # LastKey
    /\ contains_key(last.pre, OldKey)
    /\ last.pre._values[OldKey].index = last.i
    /\ \A x \in 1..Len(keys(ins)) : keys(ins)[x] # OldKey

\* C18: under set() and clear() alone the container is consistent: keys() has
\* no duplicates, contains_key(k) holds exactly for the keys of keys(), each
\* key's recorded position is its index in keys(), and len() is the number of
\* entries of the Value Table.
C18_SetClearConsistent ==
    /\ NoDuplicates(keys(ins))
    /\ \A k \in Keys : contains_key(ins, k) <=> \E x \in 1..Len(keys(ins)) : keys(ins)[x] = k
    /\ \A x \in 1..Len(keys(ins)) :
          /\ contains_key(ins, keys(ins)[x])
          /\ ins._values[keys(ins)[x]].index = Some(x - 1)
    /\ len(ins) = Cardinality(DOMAIN ins._values)

\* After a clear() or a repeated set(), a container of three keys has its
\* first key given a new value.
C18_Witness ==
    /\ last.op = "set"
    /\ built = None
    /\ len(last.pre) = 3
    /\ key_at(last.pre, Some(0)) = Some(LastKey)
    /\ get(last.pre, LastKey) # Some(LastVal)

\* C19: set_at(None, k, v) leaves the Order Index and len() unchanged and
\* writes k into the Value Table without a recorded position: contains_key(k)
\* is true and get(k) == v, whether or not k occupies a position, and a
\* position recorded for k before is erased.
C19_SetAtNoneWritesValueTable ==
    (last.op = "set_at" /\ last.i = None) =>
        /\ keys(ins) = keys(last.pre)
        /\ len(ins) = len(last.pre)
        /\ contains_key(ins, LastKey)
        /\ get(ins, LastKey) = Some(LastVal)
        /\ ins._values[LastKey].index = None
        /\ \A j \in Keys \ {LastKey} :
              /\ contains_key(ins, j) = contains_key(last.pre, j)
              /\ contains_key(ins, j) => ins._values[j] = last.pre._values[j]

\* set_at(None, ..) was called with a contained key whose recorded position
\* was its slot.
C19_Witness ==
    /\ last.op = "set_at"
    /\ last.i = None
    /\ contains_key(last.pre, LastKey)
    /\ IsSome(last.pre._values[LastKey].index)
    /\ key_at(last.pre, last.pre._values[LastKey].index) = Some(LastKey)

\* The Vec<K> values of at most MaxLen keys.
Vecs == UNION { [1..n -> Keys] : n \in 0..MaxLen }

\* C20: on every realization of the Order Index, remove(i) with i < len()
\* reduces len() by exactly one, and remove(i) with i >= len() and set(i, k)
\* for any i leave len() unchanged: for the BinaryHeap, of the call just made;
\* for the Vec, of every call on every Vec.
C20_LengthEffects ==
    /\ last.op = "Keys::remove" =>
          IF IsSome(last.i) /\ Unwrap(last.i) < Heap_len(last.pre._keys)
          THEN Heap_len(ins._keys) = Heap_len(last.pre._keys) - 1
          ELSE Heap_len(ins._keys) = Heap_len(last.pre._keys)
    /\ last.op = "Keys::set" => Heap_len(ins._keys) = Heap_len(last.pre._keys)
    /\ \A s \in Vecs : \A i \in 0..MaxLen :
          /\ Vec_len(Vec_remove(s, Some(i))) = IF i < Vec_len(s) THEN Vec_len(s) - 1 ELSE Vec_len(s)
          /\ \A k \in Keys : Vec_len(Vec_set(s, Some(i), k)) = Vec_len(s)
====
